---- MODULE Spec2Model ----
(***************************************************************************)
(* Model of the wscan axis iterator (ax_move, ax_iter_start,              *)
(* ax_iter_repeat, ax_iter of wscan.h) and of the scan loops of wscan's    *)
(* main().                                                                 *)
(*                                                                         *)
(* Four specifications share the variables:                                *)
(*   Spec      an axis driven through its API in any order, with any       *)
(*             pattern of hardware-write failures;                         *)
(*   ScanSpec  main() of wscan.c from ax_iter_start() to process exit;     *)
(*   ScanLive  the same for steps of one count, with the fairness of a     *)
(*             sequential program;                                         *)
(*   MainSpec  main() from ax_init() to process exit, on wscan.conf and    *)
(*             its one-entry variations.                                   *)
(*                                                                         *)
(* Integers are mathematical: the bounds keep every product and sum far    *)
(* inside the range of a C int, as the configured values (xn 200,          *)
(* xstep 50) do.                                                           *)
(***************************************************************************)
EXTENDS Integers, Sequences, FiniteSets

VARIABLES
    xaxis,      \* AxisIterator_t xaxis (the axis driven by Spec)
    zaxis,      \* AxisIterator_t zaxis
    call,       \* the latest ax_* call: operation, arguments, result, effects
    committed,  \* per axis: sum of the signed pulse counts the hardware accepted
    sweep,      \* progress of a start / full sweep / repeat / full sweep sequence
    pc,         \* position of main(); "api" under Spec
    err,        \* int err of main(): the latest ax_iter() return value
    stream,     \* acquisition stream: "idle", "running", "stopped" (buffer full)
    nserv,      \* lc_stream_service() calls made in the current burst
    slices,     \* z indices whose slice directory exists
    files,      \* <<zIndex, xIndex>> of the data files written
    meta,       \* the (x, z) lengths last published with lc_put_meta_flt
    acq,        \* the completed bursts, in order
    nrepeat,    \* ax_iter_repeat() calls made by main()
    faults,     \* the failures injected so far, in order
    rc,         \* exit status of main(); "none" while it runs
    dconf,      \* lc_devconf_t dconf: the loaded configuration
    dest        \* the destination directory was created by this run

vars == <<xaxis, zaxis, call, committed, sweep, pc, err, stream, nserv,
          slices, files, meta, acq, nrepeat, faults, rc, dconf, dest>>

envvars == <<dconf, dest>>

scanvars == <<pc, err, stream, nserv, slices, files, meta, acq, nrepeat,
              faults, rc>>

(***************************************************************************)
(* Bounds of the model and constants of the program.                       *)
(***************************************************************************)
MaxStep == 1
MaxN == 2
MaxPos == 2
MaxWait == 1
MaxService == 1
MaxXN == 2
MaxZN == 2
MaxFaults == 1

AX_SETTLE_US == 100000
effrequency == 500
XPULSE_EF == 0
ZPULSE_EF == 1
xchannel == 0
zchannel == 2
xdir == 1
zdir == 1
\* xcal and zcal, 0.0025 length units per count, in ten-thousandths of a unit
xcal == 25

StepSet == (0 - MaxStep)..MaxStep
NSet == 1..MaxN
WaitSet == (0 - 1)..MaxWait

\* Outcomes of the two hardware writes of a move, <<direction write succeeded,
\* pulse command succeeded>>; the pulse command is not sent after a failed
\* direction write.
HwOutcomes == {<<TRUE, TRUE>>, <<FALSE, TRUE>>, <<TRUE, FALSE>>}

(***************************************************************************)
(* The axis iterator.                                                      *)
(***************************************************************************)

\* One effect of a call, in the order the code makes them:
\*   "dir"    LJM_eWriteName(dregister, arg), ok = the write succeeded
\*   "pulse"  efch[efch].counts = arg; lc_update_ef(), ok = it succeeded
\*   "state"  ax->state assigned arg
\*   "usleep" usleep(arg)
Ev(ev, tgt, arg, ok) == [ev |-> ev, tgt |-> tgt, arg |-> arg, ok |-> ok]

Ret(ret, ax, trace) == [ret |-> ret, ax |-> ax, trace |-> trace]

\* The struct as ax_init() leaves it for a valid configuration.
ax_init(efch, channel, steps, niter, dpos) ==
    [ efch      |-> efch,
      dregister |-> channel + 1,
      state     |-> 0,
      cal       |-> xcal,
      steps     |-> steps,
      niter     |-> niter,
      dpos      |-> IF dpos # 0 THEN 1 ELSE 0,
      dir       |-> 1,
      index     |-> 0 - 1 ]

Not(b) == IF b # 0 THEN 0 ELSE 1

\* Variant: the direction bit is not inverted for a negative step count.
ax_move_dir_noinvert(ax, steps) == ax.dpos

ax_move_dir(ax, steps) ==
    IF steps < 0 THEN Not(ax.dpos) ELSE ax.dpos

ax_move_psteps(steps) ==
    IF steps < 0 THEN 0 - steps ELSE steps

\* Variant: the computed wait leaves out the settle time.
ax_move_wait_nosettle(psteps, wait_us) ==
    IF wait_us < 0
    THEN <<Ev("usleep", 0, (psteps * 1000000) \div effrequency, TRUE)>>
    ELSE IF wait_us > 0
         THEN <<Ev("usleep", 0, wait_us, TRUE)>>
         ELSE <<>>

ax_move_wait(psteps, wait_us) ==
    IF wait_us < 0
    THEN <<Ev("usleep", 0, ((psteps * 1000000) \div effrequency) + AX_SETTLE_US, TRUE)>>
    ELSE IF wait_us > 0
         THEN <<Ev("usleep", 0, wait_us, TRUE)>>
         ELSE <<>>

\* Variant: no early return for a zero step count.
ax_move_nozero(ax, steps, wait_us, dirOk, pulseOk) ==
    LET dir    == ax_move_dir(ax, steps)
        psteps == ax_move_psteps(steps)
        w1     == <<Ev("dir", ax.dregister, dir, dirOk)>>
        w2     == Append(w1, Ev("pulse", ax.efch, psteps, pulseOk))
        ax2    == [ax EXCEPT !.state = ax.state + steps]
    IN  IF ~dirOk
        THEN Ret(0 - 1, ax, w1)
        ELSE IF ~pulseOk
             THEN Ret(0 - 1, ax, w2)
             ELSE Ret(0, ax2,
                      Append(w2, Ev("state", 0, ax2.state, TRUE))
                          \o ax_move_wait(psteps, wait_us))

\* Variant: the settle wait is made before the pulse command is checked.
ax_move_waitfirst(ax, steps, wait_us, dirOk, pulseOk) ==
    IF steps = 0
    THEN Ret(0, ax, <<>>)
    ELSE LET dir    == ax_move_dir(ax, steps)
             psteps == ax_move_psteps(steps)
             w1     == <<Ev("dir", ax.dregister, dir, dirOk)>>
             w2     == Append(w1, Ev("pulse", ax.efch, psteps, pulseOk))
                           \o ax_move_wait(psteps, wait_us)
             ax2    == [ax EXCEPT !.state = ax.state + steps]
         IN  IF ~dirOk
             THEN Ret(0 - 1, ax, w1)
             ELSE IF ~pulseOk
                  THEN Ret(0 - 1, ax, w2)
                  ELSE Ret(0, ax2, Append(w2, Ev("state", 0, ax2.state, TRUE)))

\* Variant: ax->state is updated before the pulse command's result is tested.
ax_move_commit_early(ax, steps, wait_us, dirOk, pulseOk) ==
    IF steps = 0
    THEN Ret(0, ax, <<>>)
    ELSE LET dir    == ax_move_dir(ax, steps)
             psteps == ax_move_psteps(steps)
             w1     == <<Ev("dir", ax.dregister, dir, dirOk)>>
             w2     == Append(w1, Ev("pulse", ax.efch, psteps, pulseOk))
             ax2    == [ax EXCEPT !.state = ax.state + steps]
             w3     == Append(w2, Ev("state", 0, ax2.state, TRUE))
         IN  IF ~dirOk
             THEN Ret(0 - 1, ax, w1)
             ELSE IF ~pulseOk
                  THEN Ret(0 - 1, ax2, w3)
                  ELSE Ret(0, ax2, w3 \o ax_move_wait(psteps, wait_us))

ax_move(ax, steps, wait_us, dirOk, pulseOk) ==
    IF steps = 0
    THEN Ret(0, ax, <<>>)
    ELSE LET dir    == ax_move_dir(ax, steps)
             psteps == ax_move_psteps(steps)
             w1     == <<Ev("dir", ax.dregister, dir, dirOk)>>
             w2     == Append(w1, Ev("pulse", ax.efch, psteps, pulseOk))
             ax2    == [ax EXCEPT !.state = ax.state + steps]
         IN  IF ~dirOk
             THEN Ret(0 - 1, ax, w1)
             ELSE IF ~pulseOk
                  THEN Ret(0 - 1, ax, w2)
                  ELSE Ret(0, ax2,
                           Append(w2, Ev("state", 0, ax2.state, TRUE))
                               \o ax_move_wait(psteps, wait_us))

\* Variant: the direction is left as the last sweep set it.
ax_iter_start_keepdir(ax) ==
    Ret(0, [ax EXCEPT !.index = 0 - 1], <<>>)

ax_iter_start(ax) ==
    Ret(0, [ax EXCEPT !.dir = 1, !.index = 0 - 1], <<>>)

\* Variant: the direction is not reversed.
ax_iter_repeat_noflip(ax) ==
    Ret(0, [ax EXCEPT !.index = 0 - 1], <<>>)

ax_iter_repeat(ax) ==
    Ret(0, [ax EXCEPT !.dir = Not(ax.dir), !.index = 0 - 1], <<>>)

\* Variant: the target is one increment beyond the index.
ax_iter_target_offbyone(ax) ==
    IF ax.dir # 0
    THEN (ax.index + 1) * ax.steps
    ELSE (ax.niter - ax.index - 1) * ax.steps

ax_iter_target(ax) ==
    IF ax.dir # 0
    THEN ax.index * ax.steps
    ELSE (ax.niter - ax.index) * ax.steps

\* Variant: an exhausted iterator rewinds itself.
ax_iter_rewind(ax, wait_us, dirOk, pulseOk) ==
    IF ax.index >= ax.niter
    THEN Ret(1, [ax EXCEPT !.index = 0 - 1], <<>>)
    ELSE LET ax1      == [ax EXCEPT !.index = ax.index + 1]
             distance == ax_iter_target(ax1) - ax1.state
         IN  ax_move(ax1, distance, wait_us, dirOk, pulseOk)

\* Variant: each step is a hop of one increment from the current position.
ax_iter_relative(ax, wait_us, dirOk, pulseOk) ==
    IF ax.index >= ax.niter
    THEN Ret(1, ax, <<>>)
    ELSE LET ax1      == [ax EXCEPT !.index = ax.index + 1]
             distance == IF ax1.index = 0 THEN 0
                         ELSE IF ax1.dir # 0 THEN ax1.steps ELSE 0 - ax1.steps
         IN  ax_move(ax1, distance, wait_us, dirOk, pulseOk)

\* Variant: the exhaustion test lets one more step through.
ax_iter_gt(ax, wait_us, dirOk, pulseOk) ==
    IF ax.index > ax.niter
    THEN Ret(1, ax, <<>>)
    ELSE LET ax1      == [ax EXCEPT !.index = ax.index + 1]
             distance == ax_iter_target(ax1) - ax1.state
         IN  ax_move(ax1, distance, wait_us, dirOk, pulseOk)

\* Variant: the index is advanced only once the move has succeeded.
ax_iter_retry(ax, wait_us, dirOk, pulseOk) ==
    IF ax.index >= ax.niter
    THEN Ret(1, ax, <<>>)
    ELSE LET ax1      == [ax EXCEPT !.index = ax.index + 1]
             distance == ax_iter_target(ax1) - ax1.state
             r        == ax_move(ax1, distance, wait_us, dirOk, pulseOk)
         IN  IF r.ret = 0 THEN r ELSE Ret(r.ret, ax, r.trace)

ax_iter(ax, wait_us, dirOk, pulseOk) ==
    IF ax.index >= ax.niter
    THEN Ret(1, ax, <<>>)
    ELSE LET ax1      == [ax EXCEPT !.index = ax.index + 1]
             distance == ax_iter_target(ax1) - ax1.state
         IN  ax_move(ax1, distance, wait_us, dirOk, pulseOk)

ax_get_pos(ax) == ax.state * ax.cal

ax_get_index(ax) == ax.index

(***************************************************************************)
(* The configuration and ax_init().  A meta parameter is its type and its  *)
(* value (a float in ten-thousandths, a string as a number); one that is   *)
(* not in the file has type "none".                                        *)
(***************************************************************************)
M(type, val) == [type |-> type, val |-> val]

Absent == M("none", 0)

MetaKeys == {"xstep", "xn", "xdir", "xcal", "zstep", "zn", "zdir", "zcal",
             "unit_length", "r0"}

\* wscan.conf, with one interval per axis.
BaseConf ==
    [ nefch  |-> 2,
      ef     |-> << [channel |-> xchannel, pulseout |-> TRUE],
                    [channel |-> zchannel, pulseout |-> TRUE] >>,
      domask |-> {xchannel + 1, zchannel + 1},
      meta   |-> [k \in MetaKeys |->
                     CASE k \in {"xstep", "zstep", "xn", "zn"} -> M("int", 1)
                       [] k = "xdir" -> M("int", xdir)
                       [] k = "zdir" -> M("int", zdir)
                       [] k \in {"xcal", "zcal"} -> M("flt", xcal)
                       [] k = "unit_length" -> M("str", 1)
                       [] k = "r0" -> M("flt", 954580)] ]

\* The configurations main() is run on: wscan.conf, and wscan.conf with one
\* entry changed.
Configs ==
    {BaseConf}
    \cup {[BaseConf EXCEPT !.nefch = n] : n \in {0, 1}}
    \cup {[BaseConf EXCEPT !.ef[i].pulseout = FALSE] : i \in {1, 2}}
    \cup {[BaseConf EXCEPT !.domask = @ \ {c}] : c \in {xchannel + 1, zchannel + 1}}
    \cup {[BaseConf EXCEPT !.meta[k] = Absent] : k \in MetaKeys}
    \cup {[BaseConf EXCEPT !.meta[k] = M("int", v)] :
              k \in {"xn", "zn"}, v \in {0 - 1, 0}}
    \cup {[BaseConf EXCEPT !.meta[k] = M("int", v)] :
              k \in {"xdir", "zdir"}, v \in {0, 2}}
    \cup {[BaseConf EXCEPT !.meta[k] = M("flt", v)] :
              k \in {"xcal", "zcal"}, v \in {0 - xcal, 0}}
    \cup {[BaseConf EXCEPT !.meta["r0"] = M("int", 95)]}

\* lc_get_meta_int / lc_get_meta_flt / lc_get_meta_str: nonzero when the
\* parameter is not there with the type asked for.
lc_get_meta(conf, key, type) ==
    IF conf.meta[key].type = type THEN 0 ELSE 0 - 1

\* An AxisIterator_t that ax_init() has not filled yet.
NoAxis ==
    [ efch |-> 0, dregister |-> 0, state |-> 0, cal |-> 0, steps |-> 0,
      niter |-> 0, dpos |-> 0, dir |-> 0, index |-> 0 ]

\* Variant: the test of n is left out.
ax_init_conf_anyn(conf, efch, axis) ==
    LET ax0   == [NoAxis EXCEPT !.state = 0, !.index = 0 - 1, !.dir = 1]
        ef    == conf.ef[efch + 1]
        dirch == ef.channel + 1
        axe   == [ax0 EXCEPT !.efch = efch]
        ax1   == [axe EXCEPT !.dregister = dirch]
        ax2   == [ax1 EXCEPT !.steps = conf.meta[axis \o "step"].val]
        ax3   == [ax2 EXCEPT !.niter = conf.meta[axis \o "n"].val]
        ax4   == [ax3 EXCEPT !.dpos = IF conf.meta[axis \o "dir"].val # 0
                                      THEN 1 ELSE 0]
        ax5   == [ax4 EXCEPT !.cal = conf.meta[axis \o "cal"].val]
    IN  IF efch < 0 \/ efch >= conf.nefch THEN Ret(0 - 1, ax0, <<>>)
        ELSE IF ~ef.pulseout THEN Ret(0 - 1, ax0, <<>>)
        ELSE IF dirch \notin conf.domask THEN Ret(0 - 1, axe, <<>>)
        ELSE IF lc_get_meta(conf, axis \o "step", "int") # 0 THEN Ret(0 - 1, ax1, <<>>)
        ELSE IF lc_get_meta(conf, axis \o "n", "int") # 0 THEN Ret(0 - 1, ax2, <<>>)
        ELSE IF lc_get_meta(conf, axis \o "dir", "int") # 0 THEN Ret(0 - 1, ax3, <<>>)
        ELSE IF lc_get_meta(conf, axis \o "cal", "flt") # 0 THEN Ret(0 - 1, ax4, <<>>)
        ELSE IF ax5.cal <= 0 THEN Ret(0 - 1, ax5, <<>>)
        ELSE IF lc_get_meta(conf, "unit_length", "str") # 0 THEN Ret(0 - 1, ax5, <<>>)
        ELSE Ret(0, ax5, <<>>)

\* ax_init() on a configuration: the tests in the order the code makes
\* them, each failure returning -1 with the struct as filled so far.
ax_init_conf(conf, efch, axis) ==
    LET ax0   == [NoAxis EXCEPT !.state = 0, !.index = 0 - 1, !.dir = 1]
        ef    == conf.ef[efch + 1]
        dirch == ef.channel + 1
        axe   == [ax0 EXCEPT !.efch = efch]
        ax1   == [axe EXCEPT !.dregister = dirch]
        ax2   == [ax1 EXCEPT !.steps = conf.meta[axis \o "step"].val]
        ax3   == [ax2 EXCEPT !.niter = conf.meta[axis \o "n"].val]
        ax4   == [ax3 EXCEPT !.dpos = IF conf.meta[axis \o "dir"].val # 0
                                      THEN 1 ELSE 0]
        ax5   == [ax4 EXCEPT !.cal = conf.meta[axis \o "cal"].val]
    IN  IF efch < 0 \/ efch >= conf.nefch THEN Ret(0 - 1, ax0, <<>>)
        ELSE IF ~ef.pulseout THEN Ret(0 - 1, ax0, <<>>)
        ELSE IF dirch \notin conf.domask THEN Ret(0 - 1, axe, <<>>)
        ELSE IF lc_get_meta(conf, axis \o "step", "int") # 0 THEN Ret(0 - 1, ax1, <<>>)
        ELSE IF lc_get_meta(conf, axis \o "n", "int") # 0 THEN Ret(0 - 1, ax2, <<>>)
        ELSE IF ax3.niter <= 0 THEN Ret(0 - 1, ax3, <<>>)
        ELSE IF lc_get_meta(conf, axis \o "dir", "int") # 0 THEN Ret(0 - 1, ax3, <<>>)
        ELSE IF lc_get_meta(conf, axis \o "cal", "flt") # 0 THEN Ret(0 - 1, ax4, <<>>)
        ELSE IF ax5.cal <= 0 THEN Ret(0 - 1, ax5, <<>>)
        ELSE IF lc_get_meta(conf, "unit_length", "str") # 0 THEN Ret(0 - 1, ax5, <<>>)
        ELSE Ret(0, ax5, <<>>)

(***************************************************************************)
(* What the hardware saw in a call.                                        *)
(***************************************************************************)
HwWrites(trace) == SelectSeq(trace, LAMBDA e : e.ev \in {"dir", "pulse"})

BothWritesOk(trace) ==
    LET w == HwWrites(trace)
    IN  Len(w) = 2 /\ w[1].ev = "dir" /\ w[1].ok /\ w[2].ev = "pulse" /\ w[2].ok

FailedWrite(trace) ==
    \E i \in 1..Len(trace) : trace[i].ev \in {"dir", "pulse"} /\ ~trace[i].ok

\* The signed pulse count of an accepted command: the pulse count, negated
\* when the direction pin was set against the axis's positive direction.
HwDelta(ax, trace) ==
    LET w == HwWrites(trace)
    IN  IF BothWritesOk(trace)
        THEN IF w[1].arg = ax.dpos THEN w[2].arg ELSE 0 - w[2].arg
        ELSE 0

Waits(trace) == SelectSeq(trace, LAMBDA e : e.ev = "usleep")

Call(op, axis, steps, wait_us, pre, r) ==
    [ op |-> op, axis |-> axis, steps |-> steps, wait_us |-> wait_us,
      pre |-> pre, post |-> r.ax, ret |-> r.ret, trace |-> r.trace ]

NoCall == Call("none", "x", 0, 0, ax_init(0, 0, 0, 1, 0), Ret(0, ax_init(0, 0, 0, 1, 0), <<>>))

Commit(axis, ax, r) ==
    [committed EXCEPT ![axis] = @ + HwDelta(ax, r.trace)]

Abs(i) == IF i < 0 THEN 0 - i ELSE i

(***************************************************************************)
(* Bookkeeping of one call on the x axis.  sweep follows the sequence      *)
(* ax_iter_start(), niter+1 successful ax_iter(), ax_iter_repeat(),        *)
(* niter+1 successful ax_iter(): phase 1 is the first sweep, phase 2 the   *)
(* second, k the successful steps of the phase and p0 the position held    *)
(* when ax_iter_start() was called.  An ax_iter() that returns 1 changes   *)
(* nothing and leaves the sequence where it is; any other call ends it.    *)
(***************************************************************************)
NoSweep == [phase |-> 0, k |-> 0, p0 |-> 0]

SweepAfter(op, ax, r) ==
    CASE op = "ax_iter_start" -> [phase |-> 1, k |-> 0, p0 |-> ax.state]
      [] op = "ax_iter_repeat" ->
            IF sweep.phase = 1 /\ sweep.k = ax.niter + 1
            THEN [sweep EXCEPT !.phase = 2, !.k = 0]
            ELSE NoSweep
      [] op = "ax_iter" ->
            IF r.ret = 1 THEN sweep
            ELSE IF r.ret = 0 /\ sweep.phase \in {1, 2} /\ sweep.k <= ax.niter
                 THEN [sweep EXCEPT !.k = sweep.k + 1]
                 ELSE NoSweep
      [] OTHER -> NoSweep

OnX(op, steps, wait_us, r) ==
    /\ xaxis' = r.ax
    /\ call' = Call(op, "x", steps, wait_us, xaxis, r)
    /\ committed' = Commit("x", xaxis, r)
    /\ sweep' = SweepAfter(op, xaxis, r)

OnZ(op, steps, wait_us, r) ==
    /\ zaxis' = r.ax
    /\ call' = Call(op, "z", steps, wait_us, zaxis, r)
    /\ committed' = Commit("z", zaxis, r)
    /\ sweep' = sweep

(***************************************************************************)
(* Spec: the axis API called in any order.                                 *)
(***************************************************************************)
InitCommon ==
    /\ call = NoCall
    /\ committed = [x |-> 0, z |-> 0]
    /\ sweep = NoSweep
    /\ err = 0
    /\ stream = "idle"
    /\ nserv = 0
    /\ slices = {}
    /\ files = {}
    /\ meta = <<>>
    /\ acq = <<>>
    /\ nrepeat = 0
    /\ faults = <<>>
    /\ rc = "none"

Init ==
    /\ \E s \in StepSet, n \in NSet, d \in {0, 1} :
           xaxis = ax_init(XPULSE_EF, xchannel, s, n, d)
    /\ zaxis = ax_init(ZPULSE_EF, zchannel, 1, 1, zdir)
    /\ pc = "api"
    /\ dconf = BaseConf
    /\ dest = TRUE
    /\ InitCommon

AxIterStart ==
    /\ pc = "api"
    /\ OnX("ax_iter_start", 0, 0, ax_iter_start(xaxis))
    /\ UNCHANGED <<zaxis, scanvars>>
    /\ UNCHANGED envvars

AxIterRepeat ==
    /\ pc = "api"
    /\ OnX("ax_iter_repeat", 0, 0, ax_iter_repeat(xaxis))
    /\ UNCHANGED <<zaxis, scanvars>>
    /\ UNCHANGED envvars

AxIter ==
    /\ pc = "api"
    /\ \E w \in WaitSet, hw \in HwOutcomes :
           OnX("ax_iter", 0, w, ax_iter(xaxis, w, hw[1], hw[2]))
    /\ UNCHANGED <<zaxis, scanvars>>
    /\ UNCHANGED envvars

AxMove ==
    /\ pc = "api"
    /\ \E steps \in (0 - MaxPos)..MaxPos, w \in WaitSet, hw \in HwOutcomes :
           /\ Abs(xaxis.state + steps) <= MaxPos
           /\ OnX("ax_move", steps, w, ax_move(xaxis, steps, w, hw[1], hw[2]))
    /\ UNCHANGED <<zaxis, scanvars>>
    /\ UNCHANGED envvars

Next == AxIterStart \/ AxIterRepeat \/ AxIter \/ AxMove

Spec == Init /\ [][Next]_vars

(***************************************************************************)
(* ScanSpec: main() of wscan.c, from the iterator set-up to process exit.  *)
(* Both axes were initialised from a valid configuration, with the         *)
(* direction polarity of wscan.conf.  At most                              *)
(* MaxFaults failures are injected in a run; faults lists them in order.   *)
(***************************************************************************)
CanFail == Len(faults) < MaxFaults

Faulted(kind, failed) == IF failed THEN Append(faults, kind) ELSE faults

InitScan ==
    /\ \E xs \in StepSet, xn \in 1..MaxXN :
           xaxis = ax_init(XPULSE_EF, xchannel, xs, xn, xdir)
    /\ \E zs \in StepSet, zn \in 1..MaxZN :
           zaxis = ax_init(ZPULSE_EF, zchannel, zs, zn, zdir)
    /\ pc = "start"
    /\ dconf = BaseConf
    /\ dest = TRUE
    /\ InitCommon

\* ax_iter_start(&zaxis); ax_iter_start(&xaxis);
MainStart ==
    /\ pc = "start"
    /\ zaxis' = ax_iter_start(zaxis).ax
    /\ OnX("ax_iter_start", 0, 0, ax_iter_start(xaxis))
    /\ pc' = "zloop"
    /\ UNCHANGED <<err, stream, nserv, slices, files, meta, acq, nrepeat,
                   faults, rc>>
    /\ UNCHANGED envvars

\* while(!(err = ax_iter(&zaxis, -1)))
ZIter ==
    /\ pc = "zloop"
    /\ \E hw \in HwOutcomes :
           LET r == ax_iter(zaxis, 0 - 1, hw[1], hw[2])
           IN  /\ FailedWrite(r.trace) => CanFail
               /\ OnZ("ax_iter", 0, 0 - 1, r)
               /\ err' = r.ret
               /\ faults' = Faulted("zmove", FailedWrite(r.trace))
               /\ pc' = IF r.ret = 0 THEN "mkdir" ELSE "home_x"
    /\ UNCHANGED <<xaxis, stream, nserv, slices, files, meta, acq, nrepeat, rc>>
    /\ UNCHANGED envvars

\* Variant: a failed mkdir() is only reported and the slice is scanned.
Mkdir_ignore ==
    /\ pc = "mkdir"
    /\ \E ok \in BOOLEAN :
           /\ ok => ax_get_index(zaxis) \notin slices
           /\ ~ok => CanFail
           /\ slices' = IF ok THEN slices \cup {ax_get_index(zaxis)} ELSE slices
           /\ faults' = Faulted("mkdir", ~ok)
           /\ pc' = "xloop"
           /\ rc' = rc
    /\ UNCHANGED <<xaxis, zaxis, call, committed, sweep, err, stream, nserv,
                   files, meta, acq, nrepeat>>
    /\ UNCHANGED envvars

\* mkdir(slice_directory): on failure lc_close() and return -1.
Mkdir ==
    /\ pc = "mkdir"
    /\ \E ok \in BOOLEAN :
           /\ ok => ax_get_index(zaxis) \notin slices
           /\ ~ok => CanFail
           /\ slices' = IF ok THEN slices \cup {ax_get_index(zaxis)} ELSE slices
           /\ faults' = Faulted("mkdir", ~ok)
           /\ pc' = IF ok THEN "xloop" ELSE "done"
           /\ rc' = IF ok THEN rc ELSE 0 - 1
    /\ UNCHANGED <<xaxis, zaxis, call, committed, sweep, err, stream, nserv,
                   files, meta, acq, nrepeat>>
    /\ UNCHANGED envvars

\* Variant: the x-loop body is entered unless the iteration is complete.
XIter_anyerr ==
    /\ pc = "xloop"
    /\ \E hw \in HwOutcomes :
           LET r == ax_iter(xaxis, 0 - 1, hw[1], hw[2])
           IN  /\ FailedWrite(r.trace) => CanFail
               /\ OnX("ax_iter", 0, 0 - 1, r)
               /\ err' = r.ret
               /\ faults' = Faulted("xmove", FailedWrite(r.trace))
               /\ pc' = IF r.ret # 1 THEN "meta" ELSE "repeat"
    /\ UNCHANGED <<zaxis, stream, nserv, slices, files, meta, acq, nrepeat, rc>>
    /\ UNCHANGED envvars

\* while(!(err = ax_iter(&xaxis, -1)))
XIter ==
    /\ pc = "xloop"
    /\ \E hw \in HwOutcomes :
           LET r == ax_iter(xaxis, 0 - 1, hw[1], hw[2])
           IN  /\ FailedWrite(r.trace) => CanFail
               /\ OnX("ax_iter", 0, 0 - 1, r)
               /\ err' = r.ret
               /\ faults' = Faulted("xmove", FailedWrite(r.trace))
               /\ pc' = IF r.ret = 0 THEN "meta" ELSE "repeat"
    /\ UNCHANGED <<zaxis, stream, nserv, slices, files, meta, acq, nrepeat, rc>>
    /\ UNCHANGED envvars

\* lc_put_meta_flt "x", "y", "z": a failure is a warning.
PutMeta ==
    /\ pc = "meta"
    /\ \E ok \in BOOLEAN :
           /\ ~ok => CanFail
           /\ meta' = IF ok THEN <<ax_get_pos(xaxis), 0, ax_get_pos(zaxis)>> ELSE meta
           /\ faults' = Faulted("meta", ~ok)
    /\ pc' = "stream_start"
    /\ UNCHANGED <<xaxis, zaxis, call, committed, sweep, err, stream, nserv,
                   slices, files, acq, nrepeat, rc>>
    /\ UNCHANGED envvars

\* Variant: a failed lc_stream_start() is only reported.
StreamStart_ignore ==
    /\ pc = "stream_start"
    /\ \E ok \in BOOLEAN :
           /\ ~ok => CanFail
           /\ stream' = IF ok THEN "running" ELSE stream
           /\ faults' = Faulted("start", ~ok)
           /\ pc' = IF ok THEN "service" ELSE "xloop"
    /\ nserv' = 0
    /\ UNCHANGED <<xaxis, zaxis, call, committed, sweep, err, slices, files,
                   meta, acq, nrepeat, rc>>
    /\ UNCHANGED envvars

\* lc_stream_start(): on failure lc_close() and return -1.
StreamStart ==
    /\ pc = "stream_start"
    /\ \E ok \in BOOLEAN :
           /\ ~ok => CanFail
           /\ stream' = IF ok THEN "running" ELSE stream
           /\ faults' = Faulted("start", ~ok)
           /\ pc' = IF ok THEN "service" ELSE "done"
           /\ rc' = IF ok THEN rc ELSE 0 - 1
    /\ nserv' = 0
    /\ UNCHANGED <<xaxis, zaxis, call, committed, sweep, err, slices, files,
                   meta, acq, nrepeat>>
    /\ UNCHANGED envvars

\* lc_stream_iscomplete() is false and lc_stream_service() is called: on
\* failure lc_stream_stop(), lc_close() and return -1.
StreamService ==
    /\ pc = "service"
    /\ nserv < MaxService
    /\ \E ok \in BOOLEAN :
           /\ ~ok => CanFail
           /\ stream' = IF ok THEN stream ELSE "idle"
           /\ faults' = Faulted("service", ~ok)
           /\ pc' = IF ok THEN "service" ELSE "done"
           /\ rc' = IF ok THEN rc ELSE 0 - 1
    /\ nserv' = nserv + 1
    /\ UNCHANGED <<xaxis, zaxis, call, committed, sweep, err, slices, files,
                   meta, acq, nrepeat>>
    /\ UNCHANGED envvars

\* Variant: the stream is left running when the poll loop ends.
StreamComplete_nostop ==
    /\ pc = "service"
    /\ stream' = stream
    /\ acq' = Append(acq, [ z    |-> ax_get_index(zaxis),
                            x    |-> ax_get_index(xaxis),
                            xdir |-> xaxis.dir,
                            xpos |-> xaxis.state,
                            zpos |-> zaxis.state ])
    /\ pc' = "fopen"
    /\ UNCHANGED <<xaxis, zaxis, call, committed, sweep, err, nserv, slices,
                   files, meta, nrepeat, faults, rc>>
    /\ UNCHANGED envvars

\* lc_stream_iscomplete() is true: the poll loop ends and lc_stream_stop().
StreamComplete ==
    /\ pc = "service"
    /\ stream' = "stopped"
    /\ acq' = Append(acq, [ z    |-> ax_get_index(zaxis),
                            x    |-> ax_get_index(xaxis),
                            xdir |-> xaxis.dir,
                            xpos |-> xaxis.state,
                            zpos |-> zaxis.state ])
    /\ pc' = "fopen"
    /\ UNCHANGED <<xaxis, zaxis, call, committed, sweep, err, nserv, slices,
                   files, meta, nrepeat, faults, rc>>
    /\ UNCHANGED envvars

\* Variant: a failed fopen() ends the program like a stream failure.
FileWrite_abort ==
    /\ pc = "fopen"
    /\ \E ok \in BOOLEAN :
           /\ ~ok => CanFail
           /\ files' = IF ok
                       THEN files \cup {<<ax_get_index(zaxis), ax_get_index(xaxis)>>}
                       ELSE files
           /\ faults' = Faulted("fopen", ~ok)
           /\ pc' = IF ok THEN "xloop" ELSE "done"
           /\ rc' = IF ok THEN rc ELSE 0 - 1
    /\ stream' = "idle"
    /\ UNCHANGED <<xaxis, zaxis, call, committed, sweep, err, nserv, slices,
                   meta, acq, nrepeat>>
    /\ UNCHANGED envvars

\* fopen(filename, "wb"); if it opened, the buffer is written and closed;
\* lc_stream_clean() either way.
FileWrite ==
    /\ pc = "fopen"
    /\ \E ok \in BOOLEAN :
           /\ ~ok => CanFail
           /\ files' = IF ok
                       THEN files \cup {<<ax_get_index(zaxis), ax_get_index(xaxis)>>}
                       ELSE files
           /\ faults' = Faulted("fopen", ~ok)
    /\ stream' = "idle"
    /\ pc' = "xloop"
    /\ UNCHANGED <<xaxis, zaxis, call, committed, sweep, err, nserv, slices,
                   meta, acq, nrepeat, rc>>
    /\ UNCHANGED envvars

\* Variant: the x iterator is restarted forward for every slice.
Repeat_restart ==
    /\ pc = "repeat"
    /\ OnX("ax_iter_start", 0, 0, ax_iter_start(xaxis))
    /\ nrepeat' = nrepeat + 1
    /\ pc' = "zloop"
    /\ UNCHANGED <<zaxis, err, stream, nserv, slices, files, meta, acq,
                   faults, rc>>
    /\ UNCHANGED envvars

\* ax_iter_repeat(&xaxis) at the end of the z-loop body.
Repeat ==
    /\ pc = "repeat"
    /\ OnX("ax_iter_repeat", 0, 0, ax_iter_repeat(xaxis))
    /\ nrepeat' = nrepeat + 1
    /\ pc' = "zloop"
    /\ UNCHANGED <<zaxis, err, stream, nserv, slices, files, meta, acq,
                   faults, rc>>
    /\ UNCHANGED envvars

\* Variant: the home move is commanded with the sign of the position.
HomeX_wrongsign ==
    /\ pc = "home_x"
    /\ \E hw \in HwOutcomes :
           LET r == ax_move(xaxis, xaxis.state, 0 - 1, hw[1], hw[2])
           IN  /\ FailedWrite(r.trace) => CanFail
               /\ OnX("ax_move", xaxis.state, 0 - 1, r)
               /\ faults' = Faulted("home", FailedWrite(r.trace))
    /\ pc' = "home_z"
    /\ UNCHANGED <<zaxis, err, stream, nserv, slices, files, meta, acq,
                   nrepeat, rc>>
    /\ UNCHANGED envvars

\* ax_move(&xaxis, -xaxis.state, -1);
HomeX ==
    /\ pc = "home_x"
    /\ \E hw \in HwOutcomes :
           LET r == ax_move(xaxis, 0 - xaxis.state, 0 - 1, hw[1], hw[2])
           IN  /\ FailedWrite(r.trace) => CanFail
               /\ OnX("ax_move", 0 - xaxis.state, 0 - 1, r)
               /\ faults' = Faulted("home", FailedWrite(r.trace))
    /\ pc' = "home_z"
    /\ UNCHANGED <<zaxis, err, stream, nserv, slices, files, meta, acq,
                   nrepeat, rc>>
    /\ UNCHANGED envvars

\* ax_move(&zaxis, -zaxis.state, -1); lc_close(); return 0;
HomeZ ==
    /\ pc = "home_z"
    /\ \E hw \in HwOutcomes :
           LET r == ax_move(zaxis, 0 - zaxis.state, 0 - 1, hw[1], hw[2])
           IN  /\ FailedWrite(r.trace) => CanFail
               /\ OnZ("ax_move", 0 - zaxis.state, 0 - 1, r)
               /\ faults' = Faulted("home", FailedWrite(r.trace))
    /\ pc' = "done"
    /\ rc' = 0
    /\ UNCHANGED <<xaxis, err, stream, nserv, slices, files, meta, acq, nrepeat>>
    /\ UNCHANGED envvars

ScanNext ==
    \/ MainStart \/ ZIter \/ Mkdir \/ XIter \/ PutMeta \/ StreamStart
    \/ StreamService \/ StreamComplete \/ FileWrite \/ Repeat \/ HomeX \/ HomeZ

ScanSpec == InitScan /\ [][ScanNext]_vars

\* main() is a sequential program: while it has not returned, its next
\* statement is executed.  A burst ends after at most MaxService polls.
\* The scans of ScanLive have a z step of one count and an x step of one
\* count in either direction, as the steps of wscan.conf are nonzero.
InitLive ==
    /\ \E xs \in {0 - 1, 1}, xn \in 1..MaxXN :
           xaxis = ax_init(XPULSE_EF, xchannel, xs, xn, xdir)
    /\ \E zn \in 1..MaxZN :
           zaxis = ax_init(ZPULSE_EF, zchannel, 1, zn, zdir)
    /\ pc = "start"
    /\ dconf = BaseConf
    /\ dest = TRUE
    /\ InitCommon

ScanLive == InitLive /\ [][ScanNext]_vars /\ WF_vars(ScanNext)

(***************************************************************************)
(* MainSpec: main() of wscan.c from the initialisation of the axes, on     *)
(* wscan.conf and on its one-entry variations, through the scan to exit.   *)
(***************************************************************************)
InitMain ==
    /\ dconf \in Configs
    /\ dest = FALSE
    /\ xaxis = NoAxis
    /\ zaxis = NoAxis
    /\ pc = "init_x"
    /\ InitCommon

\* if(ax_init(&xaxis, &dconf, 0, 'x')) return -1;
AxInitX ==
    /\ pc = "init_x"
    /\ LET r == ax_init_conf(dconf, 0, "x")
       IN  /\ xaxis' = r.ax
           /\ pc' = IF r.ret = 0 THEN "init_z" ELSE "done"
           /\ rc' = IF r.ret = 0 THEN rc ELSE 0 - 1
    /\ UNCHANGED <<zaxis, call, committed, sweep, err, stream, nserv, slices,
                   files, meta, acq, nrepeat, faults, envvars>>

\* if(ax_init(&zaxis, &dconf, 1, 'z')) return -1;
AxInitZ ==
    /\ pc = "init_z"
    /\ LET r == ax_init_conf(dconf, 1, "z")
       IN  /\ zaxis' = r.ax
           /\ pc' = IF r.ret = 0 THEN "radii" ELSE "done"
           /\ rc' = IF r.ret = 0 THEN rc ELSE 0 - 1
    /\ UNCHANGED <<xaxis, call, committed, sweep, err, stream, nserv, slices,
                   files, meta, acq, nrepeat, faults, envvars>>

\* The wire radii: return -1 when "r0" is not a float parameter.
CheckRadii ==
    /\ pc = "radii"
    /\ LET ok == dconf.meta["r0"].type = "flt"
       IN  /\ pc' = IF ok THEN "open" ELSE "done"
           /\ rc' = IF ok THEN rc ELSE 0 - 1
    /\ UNCHANGED <<xaxis, zaxis, call, committed, sweep, err, stream, nserv,
                   slices, files, meta, acq, nrepeat, faults, envvars>>

\* lc_open() and lc_upload_config(): return -1 when either fails.
OpenDevice ==
    /\ pc = "open"
    /\ \E ok \in BOOLEAN :
           /\ ~ok => CanFail
           /\ faults' = Faulted("open", ~ok)
           /\ pc' = IF ok THEN "destdir" ELSE "done"
           /\ rc' = IF ok THEN rc ELSE 0 - 1
    /\ UNCHANGED <<xaxis, zaxis, call, committed, sweep, err, stream, nserv,
                   slices, files, meta, acq, nrepeat, envvars>>

\* stat() and mkdir() of the destination directory: return -1 when it
\* exists or cannot be created.
MakeDest ==
    /\ pc = "destdir"
    /\ \E ok \in BOOLEAN :
           /\ ~ok => CanFail
           /\ faults' = Faulted("destdir", ~ok)
           /\ dest' = ok
           /\ pc' = IF ok THEN "start" ELSE "done"
           /\ rc' = IF ok THEN rc ELSE 0 - 1
    /\ UNCHANGED <<xaxis, zaxis, call, committed, sweep, err, stream, nserv,
                   slices, files, meta, acq, nrepeat, dconf>>

MainNext ==
    \/ AxInitX \/ AxInitZ \/ CheckRadii \/ OpenDevice \/ MakeDest
    \/ ScanNext

MainSpec == InitMain /\ [][MainNext]_vars

(***************************************************************************)
(* Properties of the axis iterator, checked under Spec.                    *)
(***************************************************************************)
SweepDone(phase) ==
    sweep.phase = phase /\ sweep.k = xaxis.niter + 1

\* C1: from position 0, ax_iter_start() and niter+1 successful ax_iter()
\* calls leave the position at niter*steps, and the next ax_iter() call
\* returns 1 whatever its wait argument and whatever the hardware would do.
C1_FullSweep ==
    (SweepDone(1) /\ sweep.p0 = 0) =>
        /\ xaxis.state = xaxis.niter * xaxis.steps
        /\ \A w \in WaitSet, hw \in HwOutcomes :
               ax_iter(xaxis, w, hw[1], hw[2]).ret = 1

C1_Witness ==
    /\ SweepDone(1) /\ sweep.p0 = 0
    /\ xaxis.steps < 0 /\ xaxis.niter >= 2 /\ xaxis.dpos = 0
    /\ call.op = "ax_iter" /\ call.ret = 1

\* C2 as stated: after start, a full sweep, repeat and a second full sweep
\* the position is the one held before ax_iter_start().
C2_RoundTripToStart ==
    SweepDone(2) => xaxis.state = sweep.p0

\* C2 amended: after start, a full sweep, repeat and a second full sweep the
\* position is 0, the origin of the step count, whatever position was held
\* before ax_iter_start(); it is the pre-start position only when that was 0.
C2_RoundTripToOrigin ==
    SweepDone(2) =>
        /\ xaxis.state = 0
        /\ (xaxis.state = sweep.p0) <=> (sweep.p0 = 0)

C2_Witness ==
    /\ SweepDone(2)
    /\ sweep.p0 # 0 /\ xaxis.steps # 0
    /\ call.op = "ax_iter" /\ call.ret = 0

\* C3: a nonzero ax_move() writes the direction value dpos for steps > 0 and
\* 1 - dpos for steps < 0, and, once that write succeeded, commands |steps|
\* pulses.
C3_DirectionBit ==
    (call.op = "ax_move" /\ call.steps # 0) =>
        LET w == HwWrites(call.trace)
        IN  /\ Len(w) >= 1
            /\ w[1].ev = "dir"
            /\ w[1].arg = IF call.steps > 0 THEN call.pre.dpos
                                            ELSE 1 - call.pre.dpos
            /\ w[1].ok => Len(w) = 2
            /\ Len(w) >= 2 => (w[2].ev = "pulse" /\ w[2].arg = Abs(call.steps))

C3_Witness ==
    /\ call.op = "ax_move" /\ call.steps < 0 /\ call.pre.dpos = 0
    /\ BothWritesOk(call.trace)
    /\ HwWrites(call.trace)[1].arg = 1

\* C4: ax_move() with steps = 0 returns 0, writes nothing to the hardware,
\* does not wait and leaves the axis as it was, for every wait_us.
C4_ZeroMove ==
    (call.op = "ax_move" /\ call.steps = 0) =>
        /\ call.ret = 0
        /\ call.trace = <<>>
        /\ call.post = call.pre

C4_Witness ==
    /\ call.op = "ax_move" /\ call.steps = 0
    /\ call.wait_us < 0 /\ call.pre.state # 0
    /\ call.ret = 0

\* C5: when the direction write or the pulse command of ax_move() fails, the
\* call returns -1, the position is the one before the call and there is no
\* wait.
C5_WriteFailure ==
    (call.op = "ax_move" /\ FailedWrite(call.trace)) =>
        /\ call.ret = 0 - 1
        /\ call.post.state = call.pre.state
        /\ Waits(call.trace) = <<>>

C5_Witness ==
    /\ call.op = "ax_move" /\ call.wait_us # 0 /\ call.steps # 0
    /\ Len(HwWrites(call.trace)) = 2 /\ ~HwWrites(call.trace)[2].ok
    /\ call.ret = 0 - 1

\* C6: the position of an axis is the sum of the signed pulse counts of the
\* moves whose two hardware writes both succeeded; a call changes it only
\* by such a move, by exactly that count, and the update follows the pulse
\* command and precedes the settle wait.
C6_PositionIsCommitted ==
    /\ xaxis.state = committed.x
    /\ zaxis.state = committed.z
    /\ call.op # "none" =>
           call.post = (IF call.axis = "x" THEN xaxis ELSE zaxis)
    /\ call.post.state - call.pre.state = HwDelta(call.pre, call.trace)
    /\ call.post.state # call.pre.state =>
           (call.op \in {"ax_move", "ax_iter"} /\ BothWritesOk(call.trace))
    /\ \A i \in 1..Len(call.trace) :
           /\ call.trace[i].ev = "state" =>
                  (i = 3 /\ BothWritesOk(call.trace)
                         /\ call.trace[i].arg = call.post.state)
           /\ call.trace[i].ev = "usleep" =>
                  (i = 4 /\ call.trace[3].ev = "state")

C6_Witness ==
    /\ call.op = "ax_iter" /\ call.ret = 0 - 1
    /\ xaxis.state # 0 /\ xaxis.state = committed.x
    /\ xaxis.dir = 0

\* C7: the cursor index stays within -1..niter.
C7_IndexRange ==
    /\ 0 - 1 <= xaxis.index /\ xaxis.index <= xaxis.niter
    /\ 0 - 1 <= zaxis.index /\ zaxis.index <= zaxis.niter

C7_Witness ==
    /\ xaxis.index = xaxis.niter
    /\ call.op = "ax_iter" /\ call.ret = 0 - 1
    /\ call.pre.index = xaxis.niter - 1

\* C8: ax_iter_start() and ax_iter_repeat() write nothing to the hardware
\* and change only the cursor: start sets dir = 1 and index = -1, repeat
\* reverses dir and sets index = -1.
C8_StartRepeatFrame ==
    /\ call.op = "ax_iter_start" =>
           /\ call.trace = <<>>
           /\ call.post = [call.pre EXCEPT !.dir = 1, !.index = 0 - 1]
    /\ call.op = "ax_iter_repeat" =>
           /\ call.trace = <<>>
           /\ call.post = [call.pre EXCEPT !.dir = 1 - call.pre.dir,
                                           !.index = 0 - 1]

C8_Witness ==
    /\ call.op = "ax_iter_start"
    /\ call.pre.dir = 0 /\ call.pre.index >= 0 /\ call.pre.state # 0
    /\ call.post.dir = 1

\* C18: a successful nonzero ax_move() waits once: for
\* |steps| * 1000000 / effrequency + AX_SETTLE_US microseconds when
\* wait_us < 0 (2000 per step plus 100000 at 500 Hz: 300000 for 100 steps),
\* for wait_us microseconds when wait_us > 0, and not at all when
\* wait_us = 0.
C18_WaitPolicy ==
    /\ (call.op = "ax_move" /\ call.steps # 0 /\ call.ret = 0) =>
           LET w == Waits(call.trace)
           IN  /\ call.wait_us < 0 =>
                      /\ Len(w) = 1
                      /\ w[1].arg = Abs(call.steps) * 2000 + 100000
               /\ call.wait_us > 0 => (Len(w) = 1 /\ w[1].arg = call.wait_us)
               /\ call.wait_us = 0 => w = <<>>
    /\ Waits(ax_move(xaxis, 100, 0 - 1, TRUE, TRUE).trace)[1].arg = 300000

C18_Witness ==
    /\ call.op = "ax_move" /\ call.steps = 0 - 2 /\ call.ret = 0
    /\ call.wait_us < 0
    /\ Waits(call.trace)[1].arg = 104000

\* C19: ax_iter() on an exhausted iterator (index >= niter) returns 1,
\* writes nothing to the hardware and changes nothing, whatever its
\* arguments and whatever the hardware would answer; an exhausted iterator
\* stays exhausted through every call but ax_iter_start() and
\* ax_iter_repeat().
C19_ExhaustionAbsorbing ==
    /\ (call.op = "ax_iter" /\ call.pre.index >= call.pre.niter) =>
           (call.ret = 1 /\ call.trace = <<>> /\ call.post = call.pre)
    /\ xaxis.index >= xaxis.niter =>
           \A w \in WaitSet, hw \in HwOutcomes :
               ax_iter(xaxis, w, hw[1], hw[2]) = Ret(1, xaxis, <<>>)
    /\ (call.pre.index >= call.pre.niter /\ call.post.index < call.post.niter) =>
           call.op \in {"ax_iter_start", "ax_iter_repeat"}
    /\ (call.op = "ax_iter" /\ call.ret = 1) => call.pre.index >= call.pre.niter

C19_Witness ==
    /\ call.op = "ax_iter" /\ call.ret = 1
    /\ call.pre.index = call.pre.niter
    /\ call.pre.state # call.pre.niter * call.pre.steps
    /\ call.pre.dir = 0 /\ call.wait_us > 0
    /\ call.post = call.pre

\* The position the plan gives the cursor of an axis.
PlanPosition(ax) ==
    IF ax.dir # 0 THEN ax.index * ax.steps
                  ELSE (ax.niter - ax.index) * ax.steps

\* C20: after a successful ax_iter() the position is index*steps with the
\* cursor forward and (niter - index)*steps with it reversed, index being
\* the index after the call, whatever the position was before the call.
C20_AbsoluteTarget ==
    (call.op = "ax_iter" /\ call.ret = 0) =>
        /\ call.post.index = call.pre.index + 1
        /\ call.post.state = PlanPosition(call.post)

C20_Witness ==
    /\ call.op = "ax_iter" /\ call.ret = 0
    /\ call.pre.index >= 0
    /\ call.pre.state # PlanPosition(call.pre)
    /\ call.post.dir = 0 /\ call.post.steps # 0
    /\ Abs(call.post.state - call.pre.state) = 2

(***************************************************************************)
(* Properties of the scan, checked under ScanSpec.                         *)
(***************************************************************************)
GridPoints == (zaxis.niter + 1) * (xaxis.niter + 1)

XStepSettled ==
    /\ call.op = "ax_iter" /\ call.axis = "x" /\ call.ret = 0
    /\ call.post = xaxis
    /\ call.trace # <<>> =>
           /\ BothWritesOk(call.trace)
           /\ call.trace[Len(call.trace)].ev = "usleep"
           /\ call.trace[Len(call.trace)].arg >= AX_SETTLE_US

\* C10: within a grid point the x step, with its settle wait, is over
\* before the burst starts; the burst is stopped before the file is opened
\* and written; and from the start of the burst to the end of the file
\* write no axis call is made and no axis moves.
C10_PointOrder ==
    /\ [](stream # "idle" => XStepSettled)
    /\ [](pc = "fopen" => stream = "stopped")
    /\ [][ /\ (stream = "idle" /\ stream' = "running") => XStepSettled
           /\ files' # files => (stream = "stopped" /\ stream' = "idle")
           /\ stream # "idle" => UNCHANGED <<xaxis, zaxis, call, committed>>
         ]_vars

C10_Witness ==
    /\ pc = "xloop" /\ stream = "idle"
    /\ <<ax_get_index(zaxis), ax_get_index(xaxis)>> \in files
    /\ XStepSettled /\ call.trace # <<>>
    /\ Len(acq) >= 2


HasFault(kinds) == \E i \in 1..Len(faults) : faults[i] \in kinds

LastFault(kinds) == Len(faults) > 0 /\ faults[Len(faults)] \in kinds

CountFaults(kinds) == Len(SelectSeq(faults, LAMBDA f : f \in kinds))

\* The latest axis call is the home move of the axis: ax_move by minus the
\* position, with the computed wait.
HomeCall(axis, ax) ==
    /\ call.op = "ax_move" /\ call.axis = axis
    /\ call.steps = 0 - call.pre.state
    /\ call.wait_us < 0
    /\ call.post = ax

\* C11: when the z-loop has ended, main() commands ax_move(x, -x.state) and
\* then ax_move(z, -z.state), the z move whatever the x move returned, and
\* returns 0; when no home move failed both positions are 0 at exit.
C11_HomeOnCompletion ==
    /\ pc = "home_z" => HomeCall("x", xaxis)
    /\ (pc = "done" /\ rc = 0) =>
           /\ HomeCall("z", zaxis)
           /\ ~HasFault({"home"}) => (xaxis.state = 0 /\ zaxis.state = 0)
    /\ (pc = "done" /\ ~HasFault({"mkdir", "start", "service"})) => rc = 0

C11_Witness ==
    /\ pc = "done" /\ rc = 0
    /\ faults = <<"home">>
    /\ xaxis.state # 0 /\ zaxis.state = 0
    /\ HomeCall("z", zaxis) /\ BothWritesOk(call.trace)

\* C12 as stated: a run ended by a motion error in a scan step, a stream
\* start or service failure or a slice-directory failure has commanded the
\* home moves, the z move last, before it ends (a run that ends with both
\* axes at the origin has nothing to command).
C12_HomeOnAbort ==
    (pc = "done" /\ HasFault({"xmove", "zmove", "mkdir", "start", "service"})) =>
        \/ HomeCall("z", zaxis)
        \/ (xaxis.state = 0 /\ zaxis.state = 0)

\* C13 as stated: once a hardware write of a scan step has failed, no scan
\* step commands motion and no burst is started.
C13_MotionFailureAborts ==
    [][ HasFault({"xmove", "zmove"}) =>
            /\ ~(stream = "idle" /\ stream' = "running")
            /\ ~(pc \in {"zloop", "xloop"} /\ call'.trace # <<>>)
      ]_vars

\* The grid points before (zi, xi) in z-major, x-minor order.
Earlier(zi, xi) ==
    {p \in (0..zaxis.niter) \X (0..xaxis.niter) :
         p[1] < zi \/ (p[1] = zi /\ p[2] < xi)}

\* C14: when lc_stream_start() or lc_stream_service() fails for a grid
\* point the program ends there with -1: nothing can follow, the point has
\* no burst on record and no file, and the files are those of the bursts
\* completed for earlier points (less those whose fopen() failed).
C14_BurstFailureAborts ==
    LastFault({"start", "service"}) =>
        LET zi == ax_get_index(zaxis)
            xi == ax_get_index(xaxis)
        IN  /\ pc = "done" /\ rc = 0 - 1
            /\ ~ENABLED ScanNext
            /\ <<zi, xi>> \notin files
            /\ \A k \in 1..Len(acq) : <<acq[k].z, acq[k].x>> \in Earlier(zi, xi)
            /\ files \subseteq Earlier(zi, xi)
            /\ Cardinality(files) = Len(acq) - CountFaults({"fopen"})

C14_Witness ==
    /\ LastFault({"service"})
    /\ pc = "done"
    /\ ax_get_index(zaxis) = 1 /\ ax_get_index(xaxis) = 1
    /\ Cardinality(files) >= 3

\* C15: a failed fopen() leaves the point without a file, cleans the stream
\* and continues with the next x step; a scan whose only failures are
\* fopen() failures takes every burst of the grid in the usual order and
\* ends with every file but those.
C15_FileFailureContinues ==
    /\ (LastFault({"fopen"}) /\ pc = "xloop") =>
           (stream = "idle" /\ rc = "none")
    /\ (faults # <<>> /\ ~HasFault({"xmove", "zmove", "mkdir", "meta", "start",
                                    "service", "home"})) =>
           /\ \A k \in 1..Len(acq) :
                  /\ acq[k].z = (k - 1) \div (xaxis.niter + 1)
                  /\ acq[k].x = (k - 1) % (xaxis.niter + 1)
           /\ pc \notin {"service", "fopen"} =>
                  Cardinality(files) = Len(acq) - CountFaults({"fopen"})
           /\ pc = "done" => (Len(acq) = GridPoints /\ rc = 0)

C15_Witness ==
    /\ pc = "done" /\ rc = 0
    /\ faults = <<"fopen">>
    /\ Len(acq) = GridPoints
    /\ <<0, 1>> \notin files /\ <<0, 0>> \in files
    /\ Cardinality(files) = GridPoints - 1

\* C16 as stated: main() returns 0 only when every scan step and every burst
\* succeeded.
C16_ExitStatus ==
    (pc = "done" /\ rc = 0) => ~HasFault({"xmove", "zmove", "start", "service"})


(***************************************************************************)
(* Properties of the whole program, checked under MainSpec.                *)
(***************************************************************************)
\* The configuration errors of an axis: its pulse channel out of range or
\* not a pulse output, its direction channel not an output, one of its keys
\* or unit_length missing, n <= 0 or cal <= 0.
AxisConfigError(conf, efch, axis) ==
    \/ efch >= conf.nefch
    \/ ~conf.ef[efch + 1].pulseout
    \/ (conf.ef[efch + 1].channel + 1) \notin conf.domask
    \/ \E k \in {axis \o "step", axis \o "n", axis \o "dir", axis \o "cal",
                 "unit_length"} : conf.meta[k] = Absent
    \/ conf.meta[axis \o "n"].val <= 0
    \/ conf.meta[axis \o "cal"].val <= 0

ConfigError(conf) ==
    \/ AxisConfigError(conf, 0, "x")
    \/ AxisConfigError(conf, 1, "z")
    \/ conf.meta["r0"] = Absent

\* C17: on a configuration with an error main() never gets past its
\* initialisation: it is initialising or has returned -1, no axis call was
\* made, no hardware command accepted, no burst started or taken, and
\* neither the destination directory nor a slice directory nor a file
\* created.
C17_ConfigErrorStopsScan ==
    ConfigError(dconf) =>
        /\ pc \in {"init_x", "init_z", "radii", "done"}
        /\ pc = "done" => rc = 0 - 1
        /\ call = NoCall
        /\ committed = [x |-> 0, z |-> 0]
        /\ stream = "idle" /\ acq = <<>>
        /\ ~dest /\ slices = {} /\ files = {}

C17_Witness ==
    /\ ConfigError(dconf)
    /\ dconf.meta["zn"].val = 0
    /\ pc = "done" /\ rc = 0 - 1
    /\ xaxis = ax_init(XPULSE_EF, xchannel, 1, 1, xdir)
    /\ ~dest


(***************************************************************************)
(* Failure of the move inside ax_iter(), checked under Spec.               *)
(***************************************************************************)
IterFailed == call.op = "ax_iter" /\ call.ret = 0 - 1

\* C21: an ax_iter() whose move fails returns -1 with the index advanced by
\* one and the position as it was, so the position is not the target of the
\* index; the next ax_iter() returns 1 when that index was the last, and
\* otherwise advances the index once more and commands the move to the
\* target of that next index.
C21_FailedIterAdvances ==
    IterFailed =>
        /\ FailedWrite(call.trace)
        /\ call.post.index = call.pre.index + 1
        /\ call.post.state = call.pre.state
        /\ committed.x = xaxis.state
        /\ xaxis.state # ax_iter_target(xaxis)
        /\ \A w \in WaitSet, hw \in HwOutcomes :
               LET r == ax_iter(xaxis, w, hw[1], hw[2])
               IN  IF call.post.index >= xaxis.niter
                   THEN r.ret = 1 /\ r.ax = xaxis
                   ELSE /\ r.ax.index = call.pre.index + 2
                        /\ r.ret = 0 => r.ax.state = ax_iter_target(r.ax)
                        /\ r.ret = 0 => r.ax.state - xaxis.state
                                            = HwDelta(xaxis, r.trace)

C21_Witness ==
    /\ IterFailed
    /\ call.pre.index = 0 /\ xaxis.niter = 2
    /\ HwWrites(call.trace)[1].ok /\ ~HwWrites(call.trace)[2].ok
    /\ xaxis.state = 0


(***************************************************************************)
(* Failure of a slice directory, checked under ScanLive.                   *)
(***************************************************************************)
\* C22: when mkdir() of a slice directory fails the program ends there with
\* -1 and nothing can follow: the latest axis call is the z step of that
\* slice, the stream is idle, and every burst and every file is of an
\* earlier slice; and whenever a data file is about to be opened for
\* writing, no file of that name exists.
C22_SliceDirFailureAborts ==
    /\ HasFault({"mkdir"}) =>
           LET zi == ax_get_index(zaxis)
           IN  /\ LastFault({"mkdir"})
               /\ pc = "done" /\ rc = 0 - 1
               /\ ~ENABLED ScanNext
               /\ call.axis = "z" /\ call.op = "ax_iter" /\ call.ret = 0
               /\ call.post = zaxis
               /\ stream = "idle"
               /\ zi \notin slices
               /\ \A k \in 1..Len(acq) : acq[k].z < zi
               /\ \A f \in files : f[1] < zi
    /\ pc = "fopen" =>
           /\ <<ax_get_index(zaxis), ax_get_index(xaxis)>> \notin files
           /\ ax_get_index(zaxis) \in slices

C22_Witness ==
    /\ LastFault({"mkdir"})
    /\ pc = "done"
    /\ ax_get_index(zaxis) = 1 /\ zaxis.niter = 2
    /\ Cardinality(files) = 3
    /\ xaxis.state # 0


(***************************************************************************)
(* The x motions of the scan, checked under ScanSpec.                      *)
(***************************************************************************)
XIterCall == call.op = "ax_iter" /\ call.axis = "x"

\* The signed pulse count of one increment in the direction of the sweep.
Hop(ax) == IF ax.dir # 0 THEN ax.steps ELSE 0 - ax.steps

\* C23: while no x move has failed, the ax_iter() that takes the x index to
\* 0, in the first slice and after every ax_iter_repeat(), finds its target
\* equal to the position and makes no hardware write; and in a run without
\* failures the only calls that write to the x hardware are the ax_iter()
\* calls of index 1..xn, each accepted for one increment in the direction
\* of the sweep, and the home move.
C23_NoRetrace ==
    /\ (XIterCall /\ call.ret # 1 /\ call.post.index = 0
            /\ ~HasFault({"xmove"})) =>
           /\ call.ret = 0
           /\ call.trace = <<>>
           /\ ax_iter_target(call.post) = call.pre.state
           /\ call.post.dir = (IF nrepeat % 2 = 0 THEN 1 ELSE 0)
    /\ (faults = <<>> /\ call.axis = "x" /\ call.trace # <<>>) =>
           \/ /\ XIterCall
              /\ call.post.index \in 1..xaxis.niter
              /\ HwDelta(call.pre, call.trace) = Hop(call.post)
           \/ HomeCall("x", xaxis) /\ pc \in {"home_z", "done"}

C23_Witness ==
    /\ XIterCall /\ call.post.index = 0 /\ call.ret = 0
    /\ nrepeat = 1 /\ faults = <<>>
    /\ xaxis.niter = 2 /\ xaxis.steps # 0
    /\ xaxis.state = 2 * xaxis.steps
    /\ call.trace = <<>>


(***************************************************************************)
(* Where the data are taken, checked under ScanLive.                       *)
(***************************************************************************)
\* main() is inside the x-loop body, between the x step and the file.
AtPoint == pc \in {"meta", "stream_start", "service", "fopen"}

\* The x position of index xi of a sweep of direction dir.
XPoint(dir, xi) ==
    IF dir # 0 THEN xi * xaxis.steps ELSE (xaxis.niter - xi) * xaxis.steps

\* C24: whatever failed before, from the x step of a grid point to its file
\* (so whenever a burst is started or running) the z position is
\* zIndex*zstep and the x position is xIndex*xstep in a forward sweep and
\* (xn - xIndex)*xstep in a reverse sweep, and these are the pulses the
\* hardware accepted; every burst on record was taken at such a position,
\* and every file (zIndex, xIndex) is the file of a burst on record.
C24_SpatialAccuracy ==
    /\ AtPoint =>
           /\ zaxis.state = ax_get_index(zaxis) * zaxis.steps
           /\ xaxis.state = XPoint(xaxis.dir, ax_get_index(xaxis))
           /\ committed = [x |-> xaxis.state, z |-> zaxis.state]
    /\ stream = "running" => pc = "service"
    /\ \A k \in 1..Len(acq) :
           /\ acq[k].zpos = acq[k].z * zaxis.steps
           /\ acq[k].xpos = XPoint(acq[k].xdir, acq[k].x)
    /\ \A f \in files :
           \E k \in 1..Len(acq) : acq[k].z = f[1] /\ acq[k].x = f[2]

C24_Witness ==
    /\ stream = "running"
    /\ faults = <<"xmove">>
    /\ xaxis.dir = 0 /\ ax_get_index(xaxis) = 0
    /\ xaxis.niter = 2 /\ xaxis.steps # 0
    /\ xaxis.state = 2 * xaxis.steps
    /\ BothWritesOk(call.trace)


(***************************************************************************)
(* Termination, checked under ScanLive.                                    *)
(***************************************************************************)
\* C25: every ax_iter() call returns 1 and changes nothing, or advances the
\* index by one to at most niter, also when its move fails; the z-loop body
\* is entered only by such an advance of the z index, which never goes
\* back, and the x-loop body only by such an advance of the x index, which
\* goes back only at ax_iter_start() and at the ax_iter_repeat() that ends
\* a z-loop body; and main() eventually returns.
C25_Termination ==
    /\ [](call.op = "ax_iter" =>
              \/ call.ret = 1 /\ call.post = call.pre /\ call.trace = <<>>
              \/ /\ call.ret \in {0, 0 - 1}
                 /\ call.post.index = call.pre.index + 1
                 /\ call.post.index <= call.post.niter)
    /\ [][pc' = "mkdir" => zaxis'.index = zaxis.index + 1]_vars
    /\ [][zaxis'.index >= zaxis.index]_vars
    /\ [][pc' = "meta" => xaxis'.index = xaxis.index + 1]_vars
    /\ [][xaxis'.index < xaxis.index => pc \in {"start", "repeat"}]_vars
    /\ [](nrepeat <= zaxis.niter + 1)
    /\ <>(pc = "done")

C25_Witness ==
    /\ pc = "done" /\ rc = 0
    /\ faults = <<"xmove">>
    /\ nrepeat = zaxis.niter + 1 /\ zaxis.niter = 2
    /\ xaxis.niter = 2
    /\ Len(acq) = 8

====
